---- MODULE Spec2Model ----
(***************************************************************************)
(* A model of the PsyLLM batch pipeline (src/Code/agent1..agent4): the      *)
(* resumable, checkpointed, concurrent batch engine each stage implements.  *)
(* One behaviour follows one stage over several consecutive process runs    *)
(* on the same input; the files of the stage persist from run to run.       *)
(***************************************************************************)
EXTENDS Integers, Sequences, FiniteSets, TLC

VARIABLES
    stage,               \* which script the behaviour follows: 1, 2, 3 or 4
    pc,                  \* position of the main thread of the running process
    runNo,               \* number of the current process run
    inp,                 \* content of INPUT_PATH (never written by a stage; the user
                         \* may have extended it before a later stage 3 run)
    fs,                  \* the files of the stage: path -> content
    posts,               \* stages 1 and 4: the input posts; stage 3: the collection in memory
    processed_ids,       \* stage 1: load_processed_ids, grown by the workers;
                         \* stage 2: second component of load_processed_records
    \* ---- agent1_extract_information.py
    qhead,               \* executor queue: number of submitted posts already taken
    worker,              \* each pool thread: where it stands in worker(post)
    loaded_ids,          \* history: processed_ids as loaded at the start of the run
    calls_by_id,         \* history: gateway calls made in this run, per post_id
    lock,                \* the Lock of line 23: the thread that holds it, 0 when free
    \* ---- agent2_conversations.py
    records,             \* load_ndjson(INPUT_PATH)
    existing_records,    \* first component of load_processed_records
    records_to_process,  \* the pending list
    results,             \* successful results collected so far
    i,                   \* offset of the current chunk in records_to_process
    task,                \* pool.map: state of each record of the chunk
    sp,                  \* the running save_progress call: path, records, caller
    flushed,             \* history: records of the last load or completed flush
    progress_queue,      \* every item put on manager.Queue() in this run, in order
    progress_thread,     \* the thread running update_progress: none, running, stopped
    success_count,       \* update_progress: local counters
    fail_count,
    \* ---- agent3_thinking_psy.py
    tasks,               \* the inference tasks (post index, turn index, text, history)
    fut,                 \* the future of each task
    update_counter,
    loaded_posts,        \* history: the collection as json.load returned it in this run
    \* ---- agent4_filter.py
    filter_results,      \* main: results
    call,                \* one call of a function on its own: name, argument, return value
    \* ---- agent1 (module global) and agent3 (local of main)
    client_index,        \* index of the client the next get_client call returns
    handed,              \* history: the clients returned, in the order of the index reads
    \* ---- history of the runs (not program state)
    interrupted,         \* where the SIGINT of this run found the main thread
                         \* ("again": the run received more than one)
    prevOk               \* the previous run ended normally with nothing left pending

vars1 == <<qhead, worker, loaded_ids, calls_by_id, lock>>
varsP == <<progress_queue, progress_thread, success_count, fail_count>>
vars2 == <<records, existing_records, records_to_process, results, i, task, sp, flushed,
           varsP>>
vars3 == <<tasks, fut, update_counter, loaded_posts>>
vars4 == <<filter_results, call>>
varsC == <<client_index, handed>>
vars  == <<stage, pc, runNo, inp, fs, posts, processed_ids, vars1, vars2, vars3, vars4,
           varsC, interrupted, prevOk>>

\* what no step of stage 1, 2, 3, 4 changes, apart from the start of a new run
other1 == <<stage, runNo, inp, prevOk, vars2, vars3, vars4>>
other2 == <<stage, runNo, inp, prevOk, posts, vars1, vars3, vars4, varsC>>
other3 == <<stage, runNo, inp, prevOk, processed_ids, vars1, vars2, vars4>>
other4 == <<stage, runNo, inp, prevOk, processed_ids, vars1, vars2, vars3, varsC, call,
            interrupted>>

-----------------------------------------------------------------------------
(* Bounds of the model *)
MaxInput == 2          \* longest input collection
MaxRuns == 3           \* consecutive runs of the stage
BATCH_SIZE == 1        \* agent2 line 21 sets 25; scaled to the input bound
PROCESSES == 1         \* agent2 line 20 sets 4; scaled

MAX_WORKERS == 2       \* agent1 line 17, agent3 line 15 (5); scaled
MaxTurns == 2          \* longest conversation of a stage 3 post
SAVE_EVERY == 2        \* agent3 line 143 saves every 10 updates; scaled
MaxLines == 3          \* longest response body of the stage 4 gateway, in lines
NumClients == 2        \* len(clients): agent1 line 21 (one per API key), agent3 line 12

(* Program constants *)
MAX_RETRIES == 3

PostIds == {"p1", "p2"}
PostIdAt == <<"p1", "p2">>

OUTPUT_PATH == "output.json"
TEMP_OUTPUT_PATH == "output.json.temp"
TEMP_TEMP_PATH == "output.json.temp.temp"
Paths == {OUTPUT_PATH, TEMP_OUTPUT_PATH, TEMP_TEMP_PATH}

-----------------------------------------------------------------------------
(* Sequences *)
Range(s) == {s[k] : k \in DOMAIN s}

Slice(s, lo, hi) == [k \in 1..((IF hi < Len(s) THEN hi ELSE Len(s)) - lo + 1) |-> s[lo + k - 1]]

SeqsUpTo(S, n) == UNION {[1..k -> S] : k \in 1..n}

-----------------------------------------------------------------------------
(* Files.  A file is absent, holds a complete JSON array ("full"), or holds  *)
(* a strict prefix of one ("partial": opened for writing and not yet closed, *)
(* or left behind by a process that died while writing).  For a partial     *)
(* file recs is what load_processed_records' line-by-line fallback recovers *)
(* from it: json.dump(indent=2) spreads every record over several lines, so *)
(* no record is recovered, and a prefix that ends right after a key such as *)
(* "post_id" yields that bare string as one element.                        *)
(***************************************************************************)
Absent == [st |-> "absent", recs |-> <<>>]
Full(recs) == [st |-> "full", recs |-> recs]
Partial(recs) == [st |-> "partial", recs |-> recs]
Junk == [junk |-> TRUE]      \* an element that is no object with a post_id

exists(path) == fs[path].st # "absent"

\* what a writer that stops in the middle of json.dump(recs) leaves behind
Prefixes(recs) == IF recs = <<>> THEN {<<>>} ELSE {<<>>, <<Junk>>}

HasPostId(rec) == "post_id" \in DOMAIN rec
IdsOf(recs) == {recs[k].post_id : k \in {j \in DOMAIN recs : HasPostId(recs[j])}}

-----------------------------------------------------------------------------
(* agent2_conversations.py *)

InputRecord(p) == [post_id |-> p, file |-> "f", rounds |-> 1, info_by_round |-> "i"]
load_ndjson(content) == [k \in DOMAIN content |-> InputRecord(content[k])]

\* lines 165-171: the whole file parses as an array; the set comprehension
\* raises on an element without post_id, after records was assigned
LoadArray(recs) ==
    IF \A k \in DOMAIN recs : HasPostId(recs[k])
    THEN <<recs, IdsOf(recs)>>
    ELSE <<recs, {}>>

\* lines 173-187: the line-by-line fallback; the first recovered element
\* without post_id is appended and then raises into the outer except, which
\* ends the loop
LoadLines(recs) ==
    LET bad == {k \in DOMAIN recs : ~HasPostId(recs[k])}
        first == CHOOSE a \in bad : \A b \in bad : a <= b
    IN  IF bad = {} THEN <<recs, IdsOf(recs)>>
        ELSE <<Slice(recs, 1, first), IdsOf(Slice(recs, 1, first - 1))>>

load_processed_records(output_path) ==
    LET temp_path == IF output_path = OUTPUT_PATH THEN TEMP_OUTPUT_PATH ELSE TEMP_TEMP_PATH
        path == IF exists(temp_path) THEN temp_path ELSE output_path
    IN  IF ~exists(path) THEN <<(<<>>), {}>>
        ELSE IF fs[path].st = "full" THEN LoadArray(fs[path].recs)
        ELSE LoadLines(fs[path].recs)

\* line 239
Pending(recs, ids) == SelectSeq(recs, LAMBDA rec : rec.post_id \notin ids)

None == [none |-> TRUE]
\* the None that line 275 puts on the progress queue, among the events 1 and 0
Sentinel == -1
\* lines 102-105; the gateway (temperature 1.0) answers differently from run to run
Result(post_id) == [post_id |-> post_id, conversation |-> <<"conv", runNo>>]

\* a record of the chunk: calls counts the gateway invocations made for it,
\* event is what process_record has put on progress_queue (lines 122, 127)
Queued == [st |-> "queued", retry_count |-> 0, calls |-> 0, res |-> None, event |-> "none"]

\* the retry guard as it would read if MAX_RETRIES bounded the attempts, the
\* first one included, instead of the retries (not what line 108 does)
ShouldRetryCountingFirstAttempt(retry_count) == retry_count + 1 < MAX_RETRIES
\* line 108
ShouldRetry(retry_count) == retry_count < MAX_RETRIES

Ended == {"done", "exit", "dead"}

\* lines 233-248: the loads, the pending check, the manager queue and the bar
Load2 ==
    /\ stage = 2 /\ pc = "load"
    /\ LET loaded == load_processed_records(OUTPUT_PATH)
           recs == load_ndjson(inp)
           todo == Pending(recs, loaded[2])
       IN  /\ existing_records' = loaded[1]
           /\ processed_ids' = loaded[2]
           /\ records' = recs
           /\ records_to_process' = todo
           /\ flushed' = loaded[1]
           /\ pc' = IF todo = <<>> THEN "exit" ELSE "thread"
    /\ UNCHANGED <<other2, varsP, fs, results, i, task, sp, interrupted>>

\* lines 250-251: the progress thread is created and started
StartProgress ==
    /\ stage = 2 /\ pc = "thread"
    /\ progress_thread' = "running"
    /\ pc' = "started"
    /\ UNCHANGED <<other2, progress_queue, success_count, fail_count, fs, processed_ids, records, existing_records, records_to_process, results, i, task, sp, flushed, interrupted>>

\* lines 253-255: results = [], the try block is entered and the pool created
EnterTry ==
    /\ stage = 2 /\ pc = "started"
    /\ results' = <<>>
    /\ pc' = "pool"
    /\ UNCHANGED <<other2, varsP, fs, processed_ids, records, existing_records, records_to_process, i, task, sp, flushed, interrupted>>

\* lines 258-260: the next chunk is handed to pool.map
StartBatch ==
    /\ stage = 2 /\ pc = "pool"
    /\ i < Len(records_to_process)
    /\ task' = [k \in 1..Len(Slice(records_to_process, i + 1, i + BATCH_SIZE)) |-> Queued]
    /\ pc' = "map"
    /\ UNCHANGED <<other2, varsP, fs, processed_ids, records, existing_records, records_to_process, results, i, sp, flushed, interrupted>>

Running == {k \in DOMAIN task : task[k].st = "running"}

\* lines 46-128: one gateway call of process_record for record k of the chunk,
\* made by a free worker process; lines 107-111 retry or raise; with the last
\* call process_record puts its event on the queue (line 122 or 127: the put
\* on a manager queue returns once the manager holds the item) and returns
Attempt(k) ==
    /\ stage = 2 /\ pc = "map"
    /\ k \in DOMAIN task
    /\ \/ task[k].st = "running"
       \/ task[k].st = "queued" /\ Cardinality(Running) < PROCESSES
    /\ LET t == [task[k] EXCEPT !.calls = @ + 1]
       IN  \/ /\ task' = [task EXCEPT ![k] = [t EXCEPT !.st = "done", !.event = 1,
                              !.res = Result(records_to_process[i + k].post_id)]]
              /\ progress_queue' = Append(progress_queue, 1)
           \/ /\ ShouldRetry(t.retry_count)
              /\ task' = [task EXCEPT ![k] = [t EXCEPT !.st = "running",
                              !.retry_count = @ + 1]]
              /\ UNCHANGED progress_queue
           \/ /\ ~ShouldRetry(t.retry_count)
              /\ task' = [task EXCEPT ![k] = [t EXCEPT !.st = "done", !.event = 0,
                              !.res = None]]
              /\ progress_queue' = Append(progress_queue, 0)
    /\ UNCHANGED <<other2, progress_thread, success_count, fail_count, pc, fs, processed_ids, records, existing_records, records_to_process, results, i, sp, flushed, interrupted>>

\* lines 260-266: pool.map returns, the successes are collected and
\* save_progress(TEMP_OUTPUT_PATH, existing_records + results) is entered
MapReturn ==
    /\ stage = 2 /\ pc = "map"
    /\ \A k \in DOMAIN task : task[k].st = "done"
    /\ LET batch_results == [k \in DOMAIN task |-> task[k].res]
           successful_results == SelectSeq(batch_results, LAMBDA res : res # None)
       IN  /\ results' = results \o successful_results
           /\ sp' = [path |-> TEMP_OUTPUT_PATH, final |-> FALSE,
                     recs |-> existing_records \o results']
    /\ task' = <<>>
    /\ pc' = "sp_open"
    /\ UNCHANGED <<other2, varsP, fs, processed_ids, records, existing_records, records_to_process, i, flushed, interrupted>>

NoSave == [path |-> OUTPUT_PATH, final |-> FALSE, recs |-> <<>>]

TempOf(path) == IF path = OUTPUT_PATH THEN TEMP_OUTPUT_PATH ELSE TEMP_TEMP_PATH

\* line 197: open(temp_path, "w") creates or truncates the temporary file
SpOpen ==
    /\ stage = 2 /\ pc = "sp_open"
    /\ fs' = [fs EXCEPT ![TempOf(sp.path)] = Partial(<<>>)]
    /\ pc' = "sp_dump"
    /\ UNCHANGED <<other2, varsP, processed_ids, records, existing_records, records_to_process, results, i, task, sp, flushed, interrupted>>

\* lines 198: json.dump completes and the file is closed
SpDump ==
    /\ stage = 2 /\ pc = "sp_dump"
    /\ fs' = [fs EXCEPT ![TempOf(sp.path)] = Full(sp.recs)]
    /\ pc' = "sp_remove"
    /\ UNCHANGED <<other2, varsP, processed_ids, records, existing_records, records_to_process, results, i, task, sp, flushed, interrupted>>

\* lines 200-202
SpRemove ==
    /\ stage = 2 /\ pc = "sp_remove"
    /\ fs' = IF exists(sp.path) THEN [fs EXCEPT ![sp.path] = Absent] ELSE fs
    /\ pc' = "sp_rename"
    /\ UNCHANGED <<other2, varsP, processed_ids, records, existing_records, records_to_process, results, i, task, sp, flushed, interrupted>>

\* line 203, and the return to the caller (line 268 or line 282)
SpRename ==
    /\ stage = 2 /\ pc = "sp_rename"
    /\ fs' = [fs EXCEPT ![sp.path] = fs[TempOf(sp.path)], ![TempOf(sp.path)] = Absent]
    /\ flushed' = sp.recs
    /\ sp' = NoSave
    /\ IF sp.final
       THEN pc' = "done" /\ UNCHANGED i
       ELSE pc' = "pool" /\ i' = i + BATCH_SIZE
    /\ UNCHANGED <<other2, varsP, processed_ids, records, existing_records, records_to_process, results, task, interrupted>>

\* line 258: the range is exhausted and the with-block ends
PoolDone ==
    /\ stage = 2 /\ pc = "pool"
    /\ i >= Len(records_to_process)
    /\ pc' = "finally"
    /\ UNCHANGED <<other2, varsP, fs, processed_ids, records, existing_records, records_to_process, results, i, task, sp, flushed, interrupted>>

\* lines 274-275: the finally block puts the sentinel None on the queue
PutSentinel ==
    /\ stage = 2 /\ pc = "finally"
    /\ progress_queue' = Append(progress_queue, Sentinel)
    /\ pc' = "join"
    /\ UNCHANGED <<other2, progress_thread, success_count, fail_count, fs, processed_ids, records, existing_records, records_to_process, results, i, task, sp, flushed, interrupted>>

\* lines 276-280: progress_thread.join() returns once update_progress has
\* returned; the bar is closed and
\* save_progress(OUTPUT_PATH, existing_records + results) is entered
FinallyJoin ==
    /\ stage = 2 /\ pc = "join"
    /\ progress_thread = "stopped"
    /\ sp' = [path |-> OUTPUT_PATH, final |-> TRUE, recs |-> existing_records \o results]
    /\ pc' = "sp_open"
    /\ UNCHANGED <<other2, varsP, fs, processed_ids, records, existing_records, records_to_process, results, i, task, flushed, interrupted>>

InSave == pc \in {"sp_open", "sp_dump", "sp_remove", "sp_rename"}
InTry2 == pc \in {"pool", "map"} \/ (InSave /\ ~sp.final)
InFinally2 == pc \in {"finally", "join"} \/ (InSave /\ sp.final)

\* the items update_progress has taken from the queue: one per counted event
Taken == success_count + fail_count

\* lines 207-220: update_progress takes the next item (get blocks on an empty
\* queue); None ends the loop, 1 counts a success, anything else a failure.
\* The thread is not a daemon: it runs on after the main thread has ended
\* and dies only with the process
UpdateProgress ==
    /\ stage = 2 /\ pc # "dead"
    /\ progress_thread = "running"
    /\ Taken < Len(progress_queue)
    /\ LET status == progress_queue[Taken + 1]
       IN  IF status = Sentinel
           THEN progress_thread' = "stopped" /\ UNCHANGED <<success_count, fail_count>>
           ELSE IF status = 1
           THEN success_count' = success_count + 1 /\ UNCHANGED <<progress_thread, fail_count>>
           ELSE fail_count' = fail_count + 1 /\ UNCHANGED <<progress_thread, success_count>>
    /\ UNCHANGED <<other2, pc, progress_queue, fs, processed_ids, records, existing_records, records_to_process, results, i, task, sp, flushed, interrupted>>

\* a writer stopped inside json.dump leaves a prefix of the array
FsStopped ==
    IF stage = 2 /\ pc = "sp_dump"
    THEN {[fs EXCEPT ![TempOf(sp.path)] = Partial(r)] : r \in Prefixes(sp.recs)}
    ELSE {fs}

\* lines 223-226, 231: SIGINT makes the main thread raise SystemExit where it
\* stands: before the try it ends the process, inside the try (lines 254-269)
\* it terminates the pool and enters the finally block, inside the finally
\* block it leaves that block
Interrupt2 ==
    /\ stage = 2 /\ pc \notin Ended
    /\ fs' \in FsStopped
    /\ pc' = IF InTry2 THEN "finally" ELSE "exit"
    /\ task' = <<>>
    /\ interrupted' = IF interrupted # "no" THEN "again"
                      ELSE IF InTry2 THEN "try" ELSE IF InFinally2 THEN "finally" ELSE "early"
    /\ UNCHANGED <<other2, varsP, processed_ids, records, existing_records, records_to_process, results, i, sp, flushed>>

\* the process is killed (SIGKILL, power loss of the process) where it stands;
\* its threads, the progress thread among them, and its queue go with it
Kill2 ==
    /\ stage = 2 /\ pc \notin Ended
    /\ fs' \in FsStopped
    /\ pc' = "dead"
    /\ task' = <<>>
    /\ progress_queue' = <<>> /\ progress_thread' = "none"
    /\ success_count' = 0 /\ fail_count' = 0
    /\ UNCHANGED <<other2, processed_ids, records, existing_records, records_to_process, results, i, sp, flushed, interrupted>>

\* the script is started again on the same input and the same files
\* every pending record of the input is complete in what the next run loads
Complete2 ==
    LET loaded == load_processed_records(OUTPUT_PATH)
    IN  \A k \in DOMAIN inp : inp[k] \in IdsOf(loaded[1])

\* the script is started again on the same input and the same files
NextRun2 ==
    /\ stage = 2 /\ pc \in Ended
    /\ runNo < MaxRuns
    /\ runNo' = runNo + 1
    /\ pc' = "load"
    /\ prevOk' = (pc \in {"done", "exit"} /\ interrupted = "no" /\ Complete2)
    /\ records' = <<>> /\ existing_records' = <<>> /\ processed_ids' = {}
    /\ records_to_process' = <<>> /\ results' = <<>> /\ i' = 0 /\ task' = <<>>
    /\ sp' = NoSave
    /\ progress_queue' = <<>> /\ progress_thread' = "none"
    /\ success_count' = 0 /\ fail_count' = 0
    /\ interrupted' = "no" /\ flushed' = <<>>
    /\ UNCHANGED <<stage, inp, fs, posts, vars1, vars3, vars4, varsC>>

\* the state no stage has touched
NoCalls == [p \in PostIds |-> 0]
Idle1 ==
    /\ qhead = 0 /\ worker = <<>> /\ loaded_ids = {} /\ calls_by_id = NoCalls
    /\ lock = 0
Idle2 ==
    /\ records = <<>> /\ existing_records = <<>>
    /\ records_to_process = <<>> /\ results = <<>> /\ i = 0 /\ task = <<>>
    /\ sp = NoSave /\ flushed = <<>>
    /\ progress_queue = <<>> /\ progress_thread = "none"
    /\ success_count = 0 /\ fail_count = 0
Idle3 == tasks = <<>> /\ fut = <<>> /\ update_counter = 0 /\ loaded_posts = <<>>
NoCall == [fn |-> "none"]
Idle4 == filter_results = <<>> /\ call = NoCall
IdleC == client_index = 0 /\ handed = <<>>

Init2 ==
    /\ stage = 2 /\ pc = "load" /\ runNo = 1
    /\ inp \in SeqsUpTo(PostIds, MaxInput)
    /\ fs = [p \in Paths |-> Absent]
    /\ posts = <<>> /\ processed_ids = {}
    /\ Idle1 /\ Idle2 /\ Idle3 /\ Idle4 /\ IdleC
    /\ interrupted = "no" /\ prevOk = FALSE

Next2 ==
    \/ Load2 \/ StartProgress \/ EnterTry
    \/ StartBatch \/ (\E k \in 1..BATCH_SIZE : Attempt(k)) \/ MapReturn
    \/ SpOpen \/ SpDump \/ SpRemove \/ SpRename \/ PoolDone
    \/ PutSentinel \/ FinallyJoin \/ UpdateProgress
    \/ Interrupt2 \/ Kill2 \/ NextRun2

Spec2 == Init2 /\ [][Next2]_vars

-----------------------------------------------------------------------------
(* agent1_extract_information.py.  OUTPUT_PATH is line-delimited: a "full"   *)
(* file holds one record per line.                                          *)

Post1(p) == [post_id |-> p, content |-> "t", file |-> "f"]

\* lines 63-73
load_processed_ids(path) == IF exists(path) THEN IdsOf(fs[path].recs) ELSE {}

\* lines 111-116; the gateway answers differently from run to run
Result1(post) == [post_id |-> post.post_id, file |-> post.file,
                  rounds |-> 1, info_by_round |-> <<"info", runNo>>]

\* tmp holds the value of client_index the thread's get_client call has read
\* for the increment of line 30
IdleWorker == [pc |-> "idle", post |-> 0, tmp |-> 0]
Threads == 1..MAX_WORKERS

\* lines 95-98, 124-125: the input and the processed ids are loaded, the
\* output file is opened for appending and every post is submitted
Load1 ==
    /\ stage = 1 /\ pc = "load"
    /\ posts' = [k \in DOMAIN inp |-> Post1(inp[k])]
    /\ processed_ids' = load_processed_ids(OUTPUT_PATH)
    /\ loaded_ids' = load_processed_ids(OUTPUT_PATH)
    /\ fs' = IF exists(OUTPUT_PATH) THEN fs ELSE [fs EXCEPT ![OUTPUT_PATH] = Full(<<>>)]
    /\ qhead' = 0
    /\ worker' = [w \in Threads |-> IdleWorker]
    /\ client_index' = 0 /\ handed' = <<>>
    /\ calls_by_id' = NoCalls /\ lock' = 0
    /\ pc' = "pool"
    /\ UNCHANGED <<other1, interrupted>>

\* a free pool thread takes the next submitted post (line 99)
Take(w) ==
    /\ stage = 1 /\ pc = "pool"
    /\ worker[w].pc = "idle"
    /\ qhead < Len(posts)
    /\ qhead' = qhead + 1
    /\ worker' = [worker EXCEPT ![w] = [IdleWorker EXCEPT !.pc = "check", !.post = qhead + 1]]
    /\ UNCHANGED <<other1, varsC, pc, fs, posts, processed_ids, loaded_ids, lock, calls_by_id, interrupted>>

\* threading.Lock taken as it would be if it excluded nobody
CanAcquireAlways(holder) == TRUE

\* lines 101, 117: "with lock" goes on only when no thread holds the lock
CanAcquire(holder) == holder = 0

\* line 101: the lock is acquired for the processed check
LockCheck(w) ==
    /\ stage = 1 /\ pc = "pool"
    /\ worker[w].pc = "check"
    /\ CanAcquire(lock)
    /\ lock' = w
    /\ worker' = [worker EXCEPT ![w] = [@ EXCEPT !.pc = "checking"]]
    /\ UNCHANGED <<other1, varsC, pc, fs, posts, processed_ids, qhead, loaded_ids,
                   calls_by_id, interrupted>>

\* lines 102-103: a post already processed is dropped; the lock is released
Check(w) ==
    /\ stage = 1 /\ pc = "pool"
    /\ worker[w].pc = "checking"
    /\ worker' = [worker EXCEPT ![w] =
                     IF posts[worker[w].post].post_id \in processed_ids
                     THEN IdleWorker ELSE [@ EXCEPT !.pc = "get_client"]]
    /\ lock' = 0
    /\ UNCHANGED <<other1, varsC, pc, fs, posts, processed_ids, qhead, loaded_ids,
                   calls_by_id, interrupted>>

\* get_client (lines 26-31) is called by the worker thread through
\* inference_with_deepseek (line 36) with no lock held: another thread can
\* run between any two of its reads and writes of client_index.
\* line 29: client = clients[client_index]
GetClientRead(w) ==
    /\ stage = 1 /\ pc = "pool"
    /\ worker[w].pc = "get_client"
    /\ worker' = [worker EXCEPT ![w] = [@ EXCEPT !.pc = "gc_load"]]
    /\ handed' = Append(handed, client_index)
    /\ UNCHANGED <<other1, client_index, pc, fs, posts, processed_ids, qhead, loaded_ids, lock,
                   calls_by_id, interrupted>>

\* line 30, right-hand side: client_index is read again
GetClientLoad(w) ==
    /\ stage = 1 /\ pc = "pool"
    /\ worker[w].pc = "gc_load"
    /\ worker' = [worker EXCEPT ![w] = [@ EXCEPT !.pc = "gc_store", !.tmp = client_index]]
    /\ UNCHANGED <<other1, varsC, pc, fs, posts, processed_ids, qhead, loaded_ids, lock, calls_by_id, interrupted>>

\* line 30, assignment, and the return of line 31
GetClientStore(w) ==
    /\ stage = 1 /\ pc = "pool"
    /\ worker[w].pc = "gc_store"
    /\ client_index' = (worker[w].tmp + 1) % NumClients
    /\ worker' = [worker EXCEPT ![w] = [@ EXCEPT !.pc = "infer", !.tmp = 0]]
    /\ UNCHANGED <<other1, handed, pc, fs, posts, processed_ids, qhead, loaded_ids, lock, calls_by_id, interrupted>>

\* lines 37-45, 108-110, 121-122: the gateway call; it raises, or its answer
\* lacks rounds or info_by_round, or it yields a result
Infer(w) ==
    /\ stage = 1 /\ pc = "pool"
    /\ worker[w].pc = "infer"
    /\ \E answer \in {"error", "incomplete", "ok"} :
          worker' = [worker EXCEPT ![w] =
                        IF answer = "ok" THEN [@ EXCEPT !.pc = "write"]
                        ELSE IdleWorker]
    /\ calls_by_id' = [calls_by_id EXCEPT ![posts[worker[w].post].post_id] = @ + 1]
    /\ UNCHANGED <<other1, varsC, pc, fs, posts, processed_ids, qhead, loaded_ids, lock, interrupted>>

\* lines 111-117: the result is built and the lock acquired for the write
LockWrite(w) ==
    /\ stage = 1 /\ pc = "pool"
    /\ worker[w].pc = "write"
    /\ CanAcquire(lock)
    /\ lock' = w
    /\ worker' = [worker EXCEPT ![w] = [@ EXCEPT !.pc = "w_line"]]
    /\ UNCHANGED <<other1, varsC, pc, fs, posts, processed_ids, qhead, loaded_ids,
                   calls_by_id, interrupted>>

\* lines 118-119: the result line is appended and flushed
Write(w) ==
    /\ stage = 1 /\ pc = "pool"
    /\ worker[w].pc = "w_line"
    /\ fs' = [fs EXCEPT ![OUTPUT_PATH] =
                 Full(Append(@.recs, Result1(posts[worker[w].post])))]
    /\ worker' = [worker EXCEPT ![w] = [@ EXCEPT !.pc = "w_add"]]
    /\ UNCHANGED <<other1, varsC, pc, posts, processed_ids, qhead, loaded_ids, lock,
                   calls_by_id, interrupted>>

\* line 120: the post id is added to processed_ids; the lock is released
AddId(w) ==
    /\ stage = 1 /\ pc = "pool"
    /\ worker[w].pc = "w_add"
    /\ processed_ids' = processed_ids \cup {posts[worker[w].post].post_id}
    /\ worker' = [worker EXCEPT ![w] = IdleWorker]
    /\ lock' = 0
    /\ UNCHANGED <<other1, varsC, pc, fs, posts, qhead, loaded_ids, calls_by_id, interrupted>>

\* lines 124-129: every future is done, the executor and the file are closed
Finish1 ==
    /\ stage = 1 /\ pc = "pool"
    /\ qhead = Len(posts)
    /\ \A w \in Threads : worker[w].pc = "idle"
    /\ pc' = "done"
    /\ UNCHANGED <<other1, varsC, fs, posts, processed_ids, vars1, interrupted>>

\* every post of the input is complete in what the next run loads
Complete1 == \A k \in DOMAIN inp : inp[k] \in load_processed_ids(OUTPUT_PATH)

NextRun1 ==
    /\ stage = 1 /\ pc \in Ended
    /\ runNo < MaxRuns
    /\ runNo' = runNo + 1
    /\ pc' = "load"
    /\ prevOk' = (pc = "done" /\ Complete1)
    /\ posts' = <<>> /\ processed_ids' = {}
    /\ qhead' = 0 /\ worker' = <<>> /\ loaded_ids' = {} /\ calls_by_id' = NoCalls
    /\ lock' = 0
    /\ client_index' = 0 /\ handed' = <<>>
    /\ UNCHANGED <<stage, inp, fs, vars2, vars3, vars4, interrupted>>

Init1 ==
    /\ stage = 1 /\ pc = "load" /\ runNo = 1
    /\ inp \in SeqsUpTo(PostIds, MaxInput)
    /\ fs = [p \in Paths |-> Absent]
    /\ posts = <<>> /\ processed_ids = {}
    /\ Idle1 /\ Idle2 /\ Idle3 /\ Idle4 /\ IdleC
    /\ interrupted = "no" /\ prevOk = FALSE

Next1 ==
    \/ Load1
    \/ \E w \in Threads : Take(w) \/ LockCheck(w) \/ Check(w) \/ Infer(w)
    \/ \E w \in Threads : LockWrite(w) \/ Write(w) \/ AddId(w)
    \/ \E w \in Threads : GetClientRead(w) \/ GetClientLoad(w) \/ GetClientStore(w)
    \/ Finish1 \/ NextRun1

Spec1 == Init1 /\ [][Next1]_vars

-----------------------------------------------------------------------------
(* agent3_thinking_psy.py.  OUTPUT_PATH holds the whole collection as one    *)
(* JSON array, written in place.                                            *)

TurnPending == [patient |-> "q"]
TurnDone == [patient |-> "q", counselor_content |-> "r0", counselor_think |-> "t0"]
Conversations == SeqsUpTo({TurnPending, TurnDone}, MaxTurns)
\* input collections of one or two posts
Inputs3 ==
    UNION {{[k \in 1..n |-> [post_id |-> PostIdAt[k], conversation |-> c[k]]] :
               c \in [1..n -> Conversations]} : n \in DOMAIN PostIdAt}

\* dict.get: a missing key reads as None, which is false like ""
Get(turn, key) == IF key \in DOMAIN turn THEN turn[key] ELSE ""
Truthy(v) == v # ""

RECURSIVE History(_, _)
\* lines 86-91: the history of the turns before turn j
History(conv, j) ==
    IF j <= 1 THEN <<>>
    ELSE History(conv, j - 1)
         \o (IF Truthy(Get(conv[j - 1], "counselor_content"))
             THEN <<[role |-> "assistant", content |-> conv[j - 1].counselor_content]>>
             ELSE <<>>)
         \o (IF Truthy(Get(conv[j - 1], "patient"))
             THEN <<[role |-> "user", content |-> conv[j - 1].patient]>>
             ELSE <<>>)

\* the test as it would read if every turn with a patient text were
\* submitted, answered or not (not what line 84 does)
IsPendingTurnWithoutReplyTest(turn) == Truthy(Get(turn, "patient"))

\* line 84
IsPendingTurn(turn) ==
    ~Truthy(Get(turn, "counselor_content")) /\ Truthy(Get(turn, "patient"))

\* lines 83-93: the tasks of post i
TasksOfPost(ps, idx) ==
    LET conv == ps[idx].conversation
        all == [j \in DOMAIN conv |->
                   [post_idx |-> idx, conv_idx |-> j, patient |-> Get(conv[j], "patient"),
                    history |-> History(conv, j)]]
    IN  SelectSeq(all, LAMBDA t : IsPendingTurn(conv[t.conv_idx]))

RECURSIVE TasksFrom(_, _)
\* lines 81-93
TasksFrom(ps, idx) ==
    IF idx > Len(ps) THEN <<>> ELSE TasksOfPost(ps, idx) \o TasksFrom(ps, idx + 1)

\* lines 105-111, 118-125: get_client is evaluated by the main thread, once
\* per task and under client_lock, while the tasks are submitted; the calls
\* return the clients start, start + 1, ... modulo len(clients)
get_clients(start, k) == [t \in 1..k |-> (start + t - 1) % NumClients]

\* lines 73-98, 118-125: the collection is loaded from the output file when
\* there is one (json.load raises on a half-written file), else from the
\* input; the tasks are built and submitted
Load3 ==
    /\ stage = 3 /\ pc = "load"
    /\ IF exists(OUTPUT_PATH) /\ fs[OUTPUT_PATH].st # "full"
       THEN /\ pc' = "exit"
            /\ UNCHANGED <<posts, loaded_posts, tasks, fut, varsC>>
       ELSE LET loaded == IF exists(OUTPUT_PATH) THEN fs[OUTPUT_PATH].recs ELSE inp
                todo == TasksFrom(loaded, 1)
            IN  /\ posts' = loaded
                /\ loaded_posts' = loaded
                /\ tasks' = todo
                /\ fut' = [t \in DOMAIN todo |-> [st |-> "pending"]]
                /\ handed' = get_clients(0, Len(todo))
                /\ client_index' = Len(todo) % NumClients
                /\ pc' = IF todo = <<>> THEN "done" ELSE "loop"
    /\ UNCHANGED <<other3, fs, update_counter, interrupted>>

\* the list a worker thread would read if the task held the turns of the
\* collection themselves instead of a list built from them (not what lines
\* 86-93 do)
conversation_history_at_call(t) ==
    History(posts[tasks[t].post_idx].conversation, tasks[t].conv_idx)

\* lines 86-93, 122: the list built for the task before the submission, of
\* new dicts holding the strings of the earlier turns
conversation_history(t) == tasks[t].history

\* line 46: the messages of the request after the system prompt
full_conversation(t) ==
    <<[role |-> "user", content |-> tasks[t].patient]>> \o conversation_history(t)

\* lines 54-55: what the gateway answers to the request of task t of this run
Reply(t) == "r" \o ToString(t)
Think(t) == "t" \o ToString(t)

\* lines 19-56: a worker thread runs the call of task t: the request is
\* built (line 46) and sent, and the call returns a reply, or raises.
\* sent and seen are history: the request, and the earlier turns of the post
\* as the collection held them when the request was built
Complete(t) ==
    /\ stage = 3 /\ pc \in {"loop", "p_open", "p_dump"}
    /\ t \in DOMAIN fut /\ fut[t].st = "pending"
    /\ LET seen == Slice(posts[tasks[t].post_idx].conversation, 1, tasks[t].conv_idx - 1)
       IN  \/ fut' = [fut EXCEPT ![t] = [st |-> "ok", sent |-> full_conversation(t),
                                         seen |-> seen,
                                         reply |-> Reply(t), think |-> Think(t)]]
           \/ fut' = [fut EXCEPT ![t] = [st |-> "err", sent |-> full_conversation(t),
                                         seen |-> seen]]
    /\ UNCHANGED <<other3, varsC, pc, fs, posts, tasks, update_counter, loaded_posts, interrupted>>

\* lines 137-139: the two keys are set in the dict of the turn, its other
\* keys stay
Merge(turn, reply, think) ==
    [key \in DOMAIN turn \cup {"counselor_content", "counselor_think"} |->
        IF key = "counselor_content" THEN reply
        ELSE IF key = "counselor_think" THEN think
        ELSE turn[key]]

\* lines 129-134 as they would read without the try: the exception of the
\* future leaves the loop and main()
AfterConsumeUncaught(st, counter) ==
    IF st = "err" THEN "exit"
    ELSE IF counter % SAVE_EVERY = 0 THEN "p_open" ELSE "loop"

\* lines 129-147: where the loop goes after a future was yielded; the
\* exception of a failed future is caught and the loop continues (line 134),
\* a merged reply is followed by a save every SAVE_EVERY-th time (line 143)
AfterConsume(st, counter) ==
    IF st = "err" THEN "loop"
    ELSE IF counter % SAVE_EVERY = 0 THEN "p_open" ELSE "loop"

\* lines 127-147: as_completed yields a finished future; its reply is
\* stored in the turn of the task, and every SAVE_EVERY-th update is
\* followed by a save
Consume(t) ==
    /\ stage = 3 /\ pc = "loop"
    /\ t \in DOMAIN fut /\ fut[t].st \in {"ok", "err"}
    /\ fut' = [fut EXCEPT ![t] = [st |-> "consumed"]]
    /\ IF fut[t].st = "err"
       THEN UNCHANGED <<posts, update_counter>>
       ELSE /\ posts' = [posts EXCEPT ![tasks[t].post_idx].conversation[tasks[t].conv_idx] =
                            Merge(@, fut[t].reply, fut[t].think)]
            /\ update_counter' = update_counter + 1
    /\ pc' = AfterConsume(fut[t].st, update_counter')
    /\ UNCHANGED <<other3, varsC, fs, tasks, loaded_posts, interrupted>>

\* line 127: every future has been yielded; the with-block ends
LoopEnd ==
    /\ stage = 3 /\ pc = "loop"
    /\ \A t \in DOMAIN fut : fut[t].st = "consumed"
    /\ pc' = "f_open"
    /\ UNCHANGED <<other3, varsC, fs, posts, vars3, interrupted>>

\* line 62: open(filename, "w") truncates the output file
Open3 ==
    /\ stage = 3 /\ pc \in {"p_open", "f_open"}
    /\ fs' = [fs EXCEPT ![OUTPUT_PATH] = Partial(<<>>)]
    /\ pc' = IF pc = "p_open" THEN "p_dump" ELSE "f_dump"
    /\ UNCHANGED <<other3, varsC, posts, vars3, interrupted>>

\* line 63: json.dump completes and the file is closed
Dump3 ==
    /\ stage = 3 /\ pc \in {"p_dump", "f_dump"}
    /\ fs' = [fs EXCEPT ![OUTPUT_PATH] = Full(posts)]
    /\ pc' = IF pc = "p_dump" THEN "loop" ELSE "done"
    /\ UNCHANGED <<other3, varsC, posts, vars3, interrupted>>

\* SIGINT: no handler is installed, KeyboardInterrupt is raised in the main
\* thread, nothing catches it and main() is left (lines 115-152 hold no
\* try/finally around the saves)
Interrupt3 ==
    /\ stage = 3 /\ pc \notin Ended /\ pc # "load"
    /\ pc' = "exit"
    /\ interrupted' = IF pc = "loop" THEN "loop" ELSE "save"
    /\ UNCHANGED <<other3, varsC, fs, posts, vars3>>

\* the process is killed where it stands
Kill3 ==
    /\ stage = 3 /\ pc \notin Ended /\ pc # "load"
    /\ pc' = "dead"
    /\ UNCHANGED <<other3, varsC, fs, posts, vars3, interrupted>>

\* no turn of the collection the next run loads is pending
Complete3 ==
    /\ fs[OUTPUT_PATH].st # "partial"
    /\ TasksFrom(IF exists(OUTPUT_PATH) THEN fs[OUTPUT_PATH].recs ELSE inp, 1) = <<>>

\* the input file of a later run: the same, or with one more post at its end
\* (lines 69, 77-78: input_file is whatever the user has put there)
MoreInput3(input) ==
    IF Len(input) < Len(PostIdAt)
    THEN {Append(input, [post_id |-> PostIdAt[Len(input) + 1], conversation |-> c]) :
              c \in Conversations}
    ELSE {}

\* the script is started again, on the same input or on a grown one
NextRun3 ==
    /\ stage = 3 /\ pc \in Ended
    /\ runNo < MaxRuns
    /\ runNo' = runNo + 1
    /\ pc' = "load"
    /\ inp' \in {inp} \cup MoreInput3(inp)
    /\ prevOk' = (pc = "done" /\ Complete3 /\ inp' = inp)
    /\ posts' = <<>> /\ tasks' = <<>> /\ fut' = <<>> /\ update_counter' = 0
    /\ loaded_posts' = <<>>
    /\ client_index' = 0 /\ handed' = <<>>
    /\ interrupted' = "no"
    /\ UNCHANGED <<stage, fs, processed_ids, vars1, vars2, vars4>>

Init3 ==
    /\ stage = 3 /\ pc = "load" /\ runNo = 1
    /\ inp \in Inputs3
    /\ fs = [p \in Paths |-> Absent]
    /\ posts = <<>> /\ processed_ids = {}
    /\ Idle1 /\ Idle2 /\ Idle3 /\ Idle4 /\ IdleC
    /\ interrupted = "no" /\ prevOk = FALSE

Next3 ==
    \/ Load3
    \/ \E t \in 1..(Len(PostIdAt) * MaxTurns) : Complete(t) \/ Consume(t)
    \/ LoopEnd \/ Open3 \/ Dump3 \/ Interrupt3 \/ Kill3 \/ NextRun3

Spec3 == Init3 /\ [][Next3]_vars

-----------------------------------------------------------------------------
(* agent4_filter.py.  A response body is a sequence of lines.  A line is a   *)
(* code fence (it starts with three backquotes, written FENCE here), blank,  *)
(* one complete JSON text, or text that is no JSON.                         *)

FenceLines == {"FENCE", "FENCE json", "FENCE json {keep,issues,reason} FENCE"}
Keys == {"keep", "issues", "reason"}

Obj(r) == [type |-> "object", obj |-> r]
Arr(x) == [type |-> "array", items |-> x]
Str(w) == [type |-> "string", words |-> w]     \* w: the key names the string contains
Num == [type |-> "number"]
JSONDecodeError == [type |-> "JSONDecodeError"]

\* the lines that are one JSON text, and the value json.loads gives each
JsonLines ==
    {"{keep,issues,reason}", "{issues,reason}", "{keep,reason}", "{keep,issues}",
     "[keep,issues,reason]", "string: keep issues reason", "5"}
JsonOf ==
    [text \in JsonLines |->
        CASE text = "{keep,issues,reason}" -> Obj([keep |-> TRUE, issues |-> <<1>>, reason |-> "r"])
          [] text = "{issues,reason}" -> Obj([issues |-> <<1>>, reason |-> "r"])
          [] text = "{keep,reason}" -> Obj([keep |-> TRUE, reason |-> "r"])
          [] text = "{keep,issues}" -> Obj([keep |-> TRUE, issues |-> <<1>>])
          [] text = "[keep,issues,reason]" -> Arr(<<"keep", "issues", "reason">>)
          [] text = "string: keep issues reason" -> Str(Keys)
          [] OTHER -> Num]

Lines4 == FenceLines \cup DOMAIN JsonOf \cup {"", "garbage"}
Bodies == {<<>>} \cup SeqsUpTo(Lines4, MaxLines)

\* str.strip(): leading and trailing blank lines go
StripText(lines) ==
    LET nonblank == {k \in DOMAIN lines : lines[k] # ""}
    IN  IF nonblank = {} THEN <<>>
        ELSE Slice(lines, CHOOSE a \in nonblank : \A b \in nonblank : a <= b,
                          CHOOSE a \in nonblank : \A b \in nonblank : a >= b)

\* lines 70-77: the first line is dropped, the lines up to the next fence kept
FenceContent(lines) ==
    LET rest == Tail(lines)
        closing == {k \in DOMAIN rest : rest[k] \in FenceLines}
        end == IF closing = {} THEN Len(rest)
               ELSE (CHOOSE a \in closing : \A b \in closing : a <= b) - 1
    IN  Slice(rest, 1, end)

\* lines 67-77
ResultText(body) ==
    LET text == StripText(body)
    IN  IF text # <<>> /\ text[1] \in FenceLines THEN StripText(FenceContent(text)) ELSE text

\* line 80: one JSON text, and nothing else, parses
json_loads(text) ==
    IF Len(text) = 1 /\ text[1] \in DOMAIN JsonOf THEN JsonOf[text[1]] ELSE JSONDecodeError

\* line 82, "k in result": a key of an object, an element of an array, a
\* substring of a string
Contains(result, k) ==
    CASE result.type = "object" -> k \in DOMAIN result.obj
      [] result.type = "array" -> k \in Range(result.items)
      [] OTHER -> k \in result.words

\* lines 88-92
Reject(result_text) ==
    Obj([keep |-> FALSE, issues |-> <<>>,
         reason |-> <<"Invalid model response", result_text>>])

\* lines 67-92, for the body of a response: JSONDecodeError, the TypeError of
\* "k in result" on a number and the ValueError of line 83 all end in the
\* except branch
inference_with_deepseek_v3(body) ==
    LET result_text == ResultText(body)
        result == json_loads(result_text)
    IN  IF result = JSONDecodeError \/ result = Num THEN Reject(result_text)
        ELSE IF \A k \in Keys : Contains(result, k) THEN result
        ELSE Reject(result_text)

Post4(p) == [post_id |-> p, conversation |-> <<TurnDone>>]

\* what the gateway does with one request (line 58): it raises, or answers
\* with no content, or answers with a body
Bodies4 ==
    {<<"{keep,issues,reason}">>, <<"FENCE json", "{keep,issues,reason}", "FENCE">>,
     <<"{keep,issues}">>, <<"garbage">>, <<"[keep,issues,reason]">>}
Answers4 ==
    {[kind |-> "transport_error"], [kind |-> "error_status"], [kind |-> "no_content"]}
        \cup {[kind |-> "body", body |-> b] : b \in Bodies4}

\* lines 114-117
Load4 ==
    /\ stage = 4 /\ pc = "load"
    /\ posts' = [k \in DOMAIN inp |-> Post4(inp[k])]
    /\ filter_results' = <<>>
    /\ pc' = IF inp = <<>> THEN "w_open" ELSE "loop"
    /\ UNCHANGED <<other4, fs>>

\* lines 119-125: the next post is sent to the gateway.  An exception of
\* line 58 or of line 67 (content is None) is caught nowhere and ends main();
\* so does the TypeError of line 123 when the result is no dict.
Filter4 ==
    /\ stage = 4 /\ pc = "loop"
    /\ \E answer \in Answers4 :
          LET post == posts[Len(filter_results) + 1]
              result == inference_with_deepseek_v3(answer.body)
          IN  IF answer.kind # "body" \/ result.type # "object"
              THEN pc' = "exit" /\ UNCHANGED filter_results
              ELSE /\ filter_results' = Append(filter_results,
                           [k \in DOMAIN result.obj \cup {"post_id"} |->
                               IF k = "post_id" THEN post.post_id ELSE result.obj[k]])
                   /\ pc' = IF Len(filter_results') = Len(posts) THEN "w_open" ELSE "loop"
    /\ UNCHANGED <<other4, fs, posts>>

\* line 98: open(filepath, "w")
Open4 ==
    /\ stage = 4 /\ pc = "w_open"
    /\ fs' = [fs EXCEPT ![OUTPUT_PATH] = Partial(<<>>)]
    /\ pc' = "w_dump"
    /\ UNCHANGED <<other4, posts, filter_results>>

\* line 99
Dump4 ==
    /\ stage = 4 /\ pc = "w_dump"
    /\ fs' = [fs EXCEPT ![OUTPUT_PATH] = Full(filter_results)]
    /\ pc' = "done"
    /\ UNCHANGED <<other4, posts, filter_results>>

NextRun4 ==
    /\ stage = 4 /\ pc \in Ended
    /\ runNo < MaxRuns
    /\ runNo' = runNo + 1
    /\ pc' = "load"
    /\ posts' = <<>> /\ filter_results' = <<>>
    /\ UNCHANGED <<stage, inp, fs, prevOk, processed_ids, vars1, vars2, vars3, varsC, call,
                   interrupted>>

Init4 ==
    /\ stage = 4 /\ pc = "load" /\ runNo = 1
    /\ inp \in SeqsUpTo(PostIds, MaxInput)
    /\ fs = [p \in Paths |-> Absent]
    /\ posts = <<>> /\ processed_ids = {}
    /\ Idle1 /\ Idle2 /\ Idle3 /\ Idle4 /\ IdleC
    /\ interrupted = "no" /\ prevOk = FALSE

Next4 == Load4 \/ Filter4 \/ Open4 \/ Dump4 \/ NextRun4

Spec4 == Init4 /\ [][Next4]_vars

(* inference_with_deepseek_v3 on its own, applied to every response body *)
NoReturn == [type |-> "pending"]

InitV3 ==
    /\ stage = 4 /\ pc = "call" /\ runNo = 1
    /\ inp = <<>>
    /\ fs = [p \in Paths |-> Absent]
    /\ posts = <<>> /\ processed_ids = {}
    /\ Idle1 /\ Idle2 /\ Idle3 /\ IdleC /\ filter_results = <<>>
    /\ call \in {[fn |-> "inference_with_deepseek_v3", arg |-> b, ret |-> NoReturn] : b \in Bodies}
    /\ interrupted = "no" /\ prevOk = FALSE

ReturnV3 ==
    /\ pc = "call" /\ call.fn = "inference_with_deepseek_v3" /\ call.ret = NoReturn
    /\ call' = [call EXCEPT !.ret = inference_with_deepseek_v3(call.arg)]
    /\ UNCHANGED <<stage, pc, runNo, inp, fs, posts, processed_ids, vars1, vars2, vars3,
                   varsC, filter_results, interrupted, prevOk>>

SpecV3 == InitV3 /\ [][ReturnV3]_vars

-----------------------------------------------------------------------------
(* The pipeline: a behaviour follows one of the stages *)
Init == Init1 \/ Init2 \/ Init3
Next == Next1 \/ Next2 \/ Next3
Spec == Init /\ [][Next]_vars

(* The two stages that run their handlers on a pool of threads *)
InitThreads == Init1 \/ Init3
NextThreads == Next1 \/ Next3
SpecThreads == InitThreads /\ [][NextThreads]_vars

-----------------------------------------------------------------------------
(* Properties *)

\* C1 (its last clause): in stage 1 and stage 2 the gateway is called zero
\* times for a record whose post_id was in the output loaded at the start of
\* the run.
C1_NoCallForLoadedId ==
    /\ stage = 1 =>
          \A w \in DOMAIN worker :
              worker[w].pc \in {"infer", "write"} =>
                  posts[worker[w].post].post_id \notin loaded_ids
    /\ stage = 2 =>
          \A k \in DOMAIN task :
              task[k].calls > 0 =>
                  records_to_process[i + k].post_id \notin IdsOf(existing_records)

\* C2 as stated: with max_attempts = MAX_RETRIES, the gateway is invoked at
\* most MAX_RETRIES times for one record in one run, and the final failure is
\* raised after exactly MAX_RETRIES failed attempts.
C2_AtMostMaxRetriesCalls ==
    stage = 2 =>
        \A k \in DOMAIN task :
            /\ task[k].calls <= MAX_RETRIES
            /\ (task[k].st = "done" /\ task[k].res = None) => task[k].calls = MAX_RETRIES

\* C2 amended: inference_generate_conversation invokes the gateway at most
\* MAX_RETRIES + 1 times for one record in one run (the first attempt and
\* MAX_RETRIES retries), every invocation but the last having failed, and it
\* raises its final failure only after exactly MAX_RETRIES + 1 consecutive
\* failed attempts.
C2_AtMostMaxRetriesPlusOneCalls ==
    stage = 2 =>
        \A k \in DOMAIN task :
            /\ task[k].calls <= MAX_RETRIES + 1
            /\ task[k].st # "queued" => task[k].calls = task[k].retry_count + (IF task[k].st = "done" THEN 1 ELSE 0)
            /\ (task[k].st = "done" /\ task[k].res = None) => task[k].calls = MAX_RETRIES + 1

\* C2 witness: a record whose every attempt failed, after MAX_RETRIES + 1 calls
C2_Witness ==
    /\ stage = 2 /\ pc = "map"
    /\ \E k \in DOMAIN task :
          task[k].st = "done" /\ task[k].res = None /\ task[k].calls = MAX_RETRIES + 1

\* no post_id occurs at two positions of recs
NoDuplicateIds(recs) ==
    \A a, b \in DOMAIN recs :
        (a # b /\ HasPostId(recs[a]) /\ HasPostId(recs[b])) => recs[a].post_id # recs[b].post_id

\* C3: in stage 1 and stage 2, whatever the input, each post_id appears at
\* most once in the persisted output collection (the final output and the
\* checkpoint).
C3_NoDuplicateInOutput ==
    stage \in {1, 2} =>
        \A path \in {OUTPUT_PATH, TEMP_OUTPUT_PATH} :
            fs[path].st = "full" => NoDuplicateIds(fs[path].recs)

\* C4: during a save_progress call the file at the target path, once it
\* holds a complete collection, holds a complete collection at every instant
\* (the previous one or the new one), never an absent or half-written file.
C4_AtomicReplace ==
    [][(stage = 2 /\ InSave /\ fs[sp.path].st = "full") => fs'[sp.path].st = "full"]_vars

\* C5: in stage 3, wherever the process is killed, the output file is not
\* left half-written: it is absent or a complete collection the next run loads.
C5_KillLeavesParsableOutput ==
    (stage = 3 /\ pc = "dead") => fs[OUTPUT_PATH].st # "partial"

\* the records of seq s are all among the records of seq t
Included(s, t) == \A k \in DOMAIN s : s[k] \in Range(t)

\* C6: whenever the process dies, the next run's load_processed_records
\* recovers every record loaded at the start of the dead run and every
\* successful result of every chunk whose flush had completed.
C6_CrashLosesOnlyChunkInFlight ==
    (stage = 2 /\ pc = "dead") =>
        Included(flushed, load_processed_records(OUTPUT_PATH)[1])

\* C7: a run that received one interrupt after the pool had started ends
\* with exactly one completed final flush, and OUTPUT_PATH holds the existing
\* records plus the successful results of the chunks completed before it.
C7_InterruptThenFinalFlush ==
    (stage = 2 /\ pc \in {"done", "exit"} /\ interrupted \in {"try", "finally"}) =>
        /\ pc = "done"
        /\ fs[OUTPUT_PATH] = Full(existing_records \o results)

\* C9: when a run ends normally (also one that found nothing pending),
\* OUTPUT_PATH holds every completed record, existing plus new, and no
\* temporary checkpoint file remains.
C9_NormalEndLeavesFinalOutput ==
    (stage = 2 /\ pc \in {"done", "exit"} /\ interrupted = "no") =>
        /\ fs[OUTPUT_PATH] = Full(existing_records \o results)
        /\ ~exists(TEMP_OUTPUT_PATH)
        /\ ~exists(TEMP_TEMP_PATH)

\* C8: in stage 3, when the process exits, on normal completion or after an
\* interrupt received between two periodic saves, every reply merged into
\* the collection in memory is in the output file.
C8_MergedRepliesAreFlushed ==
    (stage = 3 /\ update_counter > 0
       /\ (pc = "done" \/ (pc = "exit" /\ interrupted = "loop"))) =>
        fs[OUTPUT_PATH] = Full(posts)

\* C10 (for a first run that ended normally with every record complete in
\* its output): the second run on the same input sends no request to the
\* gateway; stage 1 calls it for no post, stage 2 finds nothing to process,
\* stage 3 builds no task.
C10_SecondRunSendsNothing ==
    (prevOk /\ pc # "load") =>
        /\ stage = 1 => \A w \in DOMAIN worker : worker[w].pc \notin {"infer", "write"}
        /\ stage = 2 => records_to_process = <<>>
        /\ stage = 3 => tasks = <<>>

\* C11: in stages 1, 2 and 3 the failure of the handler for one record
\* (gateway error, unparsable response, missing key in the response) leaves
\* the pool running and every other record of the run untouched; a run that
\* ends normally has handled every pending record, and every success was
\* collected and is in the output.
C11_FailureIsContained ==
    /\ [](/\ (stage = 1 /\ pc = "done") =>
               (qhead = Len(posts) /\ \A w \in DOMAIN worker : worker[w].pc = "idle")
          /\ (stage = 2 /\ pc = "done" /\ interrupted = "no") =>
               (i >= Len(records_to_process) /\ fs[OUTPUT_PATH] = Full(existing_records \o results))
          /\ (stage = 3 /\ pc = "done" /\ tasks # <<>>) =>
               ((\A t \in DOMAIN fut : fut[t].st = "consumed") /\ fs[OUTPUT_PATH] = Full(posts)))
    /\ [][/\ \A w \in DOMAIN worker :
               (stage = 1 /\ w \in DOMAIN worker' /\ worker[w].pc = "infer" /\ worker'[w].pc = "idle") =>
                   /\ pc' = pc /\ qhead' = qhead /\ fs' = fs
                   /\ \A v \in DOMAIN worker \ {w} : worker'[v] = worker[v]
          /\ \A k \in DOMAIN task :
               (stage = 2 /\ k \in DOMAIN task' /\ task[k].st # "done"
                          /\ task'[k].st = "done" /\ task'[k].res = None) =>
                   /\ pc' = pc /\ results' = results /\ fs' = fs
                   /\ \A j \in DOMAIN task \ {k} : task'[j] = task[j]
          /\ (stage = 2 /\ pc = "map" /\ pc' = "sp_open") =>
                   \A k \in DOMAIN task :
                       /\ task[k].st = "done"
                       /\ task[k].res # None => task[k].res \in Range(results')
          /\ \A t \in DOMAIN fut :
               /\ (stage = 3 /\ t \in DOMAIN fut' /\ fut[t].st = "pending" /\ fut'[t].st = "err") =>
                       /\ pc' = pc /\ posts' = posts
                       /\ \A u \in DOMAIN fut \ {t} : fut'[u] = fut[u]
               /\ (stage = 3 /\ t \in DOMAIN fut' /\ fut[t].st = "err" /\ fut'[t].st = "consumed") =>
                       /\ pc' = "loop" /\ posts' = posts
                       /\ \A u \in DOMAIN fut \ {t} : fut'[u] = fut[u]
               /\ (stage = 3 /\ t \in DOMAIN fut' /\ fut[t].st = "ok" /\ fut'[t].st = "consumed") =>
                       posts'[tasks[t].post_idx].conversation[tasks[t].conv_idx].counselor_content
                           = fut[t].reply
      ]_vars

\* C11 witness: a stage 2 run in which one of two pending records failed
\* ends normally with the other one in the final output
C11_Witness ==
    /\ stage = 2 /\ pc = "done" /\ interrupted = "no"
    /\ Len(records_to_process) = 2 /\ Len(results) = 1
    /\ fs[OUTPUT_PATH] = Full(existing_records \o results)

\* C12: in stage 2 a record that succeeds after failed attempts yields the
\* result and the success event of a first-attempt success; a record all of
\* whose attempts failed is not in the collection the run persists nor in
\* the completed set (so the next run finds it pending); every identifier
\* the run persists was loaded at start or comes from a successful attempt
\* on a record dispatched in this run.
C12_RetrySuccessAndFailure ==
    stage = 2 =>
        /\ \A k \in DOMAIN task :
               LET id == records_to_process[i + k].post_id
               IN  /\ (task[k].st = "done" /\ task[k].res # None) =>
                          (task[k].res = Result(id) /\ task[k].event = 1)
                   /\ (task[k].st = "done" /\ task[k].res = None) =>
                          /\ task[k].event = 0
                          /\ id \notin IdsOf(existing_records \o results)
                          /\ id \notin processed_ids
        /\ IdsOf(flushed) \subseteq IdsOf(existing_records) \cup IdsOf(results)
        /\ IdsOf(results) \subseteq
               {records_to_process[j].post_id :
                    j \in {n \in DOMAIN records_to_process : n <= i + BATCH_SIZE}}

\* C13: in stage 4 a run ends with exactly one result per input record in
\* the output, in input order and carrying the record's post_id, also when
\* the gateway failed (transport error or error status) for one record.
C13_OneResultPerRecord ==
    (stage = 4 /\ pc \in {"done", "exit"}) =>
        /\ fs[OUTPUT_PATH] = Full(filter_results)
        /\ Len(filter_results) = Len(posts)
        /\ \A k \in DOMAIN filter_results : filter_results[k].post_id = posts[k].post_id

\* C14: a body that after code-fence stripping parses to an object with the
\* keys keep, issues and reason is returned unchanged; for every other body
\* inference_with_deepseek_v3 returns a reject result, keep = False and
\* issues = [].
C14_RejectOrUnchanged ==
    (call.fn = "inference_with_deepseek_v3" /\ call.ret # NoReturn) =>
        LET parsed == json_loads(ResultText(call.arg))
        IN  IF parsed.type = "object" /\ Keys \subseteq DOMAIN parsed.obj
            THEN call.ret = parsed
            ELSE /\ call.ret.type = "object"
                 /\ call.ret.obj.keep = FALSE
                 /\ call.ret.obj.issues = <<>>

\* C15: in stage 2, whatever the prior output file holds, the processed_ids
\* that load_processed_records returns is exactly the set of the post_id
\* values of the records it returns.
C15_IdsAreIdsOfRecords ==
    stage = 2 => processed_ids = IdsOf(existing_records)

\* C16: in stage 3, once a run has built and submitted its tasks, every turn
\* of every input record that has patient text and no counselor reply is
\* among the tasks (or the record already has a reply for that turn in the
\* collection loaded from the prior output), also when the input holds
\* records that the prior output file does not hold.
C16_EveryPendingTurnIsDispatched ==
    (stage = 3 /\ pc \notin {"load", "exit", "dead"}) =>
        \A k \in DOMAIN inp : \A j \in DOMAIN inp[k].conversation :
            IsPendingTurn(inp[k].conversation[j]) =>
                \/ \E t \in DOMAIN tasks :
                       /\ posts[tasks[t].post_idx].post_id = inp[k].post_id
                       /\ tasks[t].conv_idx = j
                \/ \E m \in DOMAIN posts :
                       /\ posts[m].post_id = inp[k].post_id
                       /\ Truthy(Get(posts[m].conversation[j], "counselor_content"))

\* every field of record rec is in record out, with the same value
KeepsFields(rec, out) ==
    \A f \in DOMAIN rec : f \in DOMAIN out /\ out[f] = rec[f]

\* C17: every field a record carries when it enters stage 1 (post_id,
\* content, file) or stage 2 (post_id, file, rounds, info_by_round) is
\* present and unchanged in the record the stage writes for it.
C17_FieldsAccumulate ==
    /\ stage = 1 =>
           \A k \in DOMAIN posts : \A n \in DOMAIN fs[OUTPUT_PATH].recs :
               fs[OUTPUT_PATH].recs[n].post_id = posts[k].post_id =>
                   KeepsFields(posts[k], fs[OUTPUT_PATH].recs[n])
    /\ stage = 2 =>
           \A path \in {OUTPUT_PATH, TEMP_OUTPUT_PATH} :
               fs[path].st = "full" =>
                   \A k \in DOMAIN records : \A n \in DOMAIN fs[path].recs :
                       (HasPostId(fs[path].recs[n])
                            /\ fs[path].recs[n].post_id = records[k].post_id) =>
                           KeepsFields(records[k], fs[path].recs[n])

\* C18: in stage 1 and stage 3, whenever no get_client call is between its
\* read and its write of the index, the index equals (start + k) mod n for
\* the k calls made so far over the n clients (start is 0), and no two calls
\* whose index reads are separated by fewer than n calls got the same client.
C18_RoundRobinIsThreadSafe ==
    stage \in {1, 3} =>
        /\ (\A w \in DOMAIN worker : worker[w].pc \notin {"gc_load", "gc_store"}) =>
               client_index = Len(handed) % NumClients
        /\ \A a, b \in DOMAIN handed :
               (a < b /\ b - a < NumClients) => handed[a] # handed[b]

\* a pool thread that has passed the processed check for its post
Busy(w) ==
    worker[w].pc \in {"get_client", "gc_load", "gc_store", "infer", "write", "w_line", "w_add"}

\* C19: in stage 1, whatever the input (identifiers need not be distinct)
\* and the interleaving, no two workers process the same post_id at the same
\* time, and the gateway is called at most once per post_id in a run.
C19_AtMostOncePerId ==
    stage = 1 =>
        /\ \A w, v \in DOMAIN worker :
               (w # v /\ Busy(w) /\ Busy(v)) =>
                   posts[worker[w].post].post_id # posts[worker[v].post].post_id
        /\ \A p \in PostIds : calls_by_id[p] <= 1

\* C20: in stage 1 a thread that reads or updates processed_ids or writes an
\* output line holds the lock, the line write and the processed_ids.add of
\* one record are in one critical section (whenever the lock is free,
\* processed_ids is the loaded identifiers plus the identifiers of the lines
\* written), and only the lock holder's step changes the file or the set;
\* in stage 3 no step of a worker (the completion of a future) changes posts
\* or the output file.
C20_StateTouchedUnderLockOrByMain ==
    /\ [](stage = 1 =>
             /\ \A w \in DOMAIN worker :
                    worker[w].pc \in {"checking", "w_line", "w_add"} => lock = w
             /\ (pc \in {"pool", "done"} /\ lock = 0) =>
                    processed_ids = loaded_ids \cup IdsOf(fs[OUTPUT_PATH].recs))
    /\ [][/\ (stage = 1 /\ pc = "pool" /\ pc' = "pool"
                        /\ (fs' # fs \/ processed_ids' # processed_ids)) =>
                   /\ lock # 0
                   /\ worker'[lock] # worker[lock]
                   /\ \A v \in DOMAIN worker \ {lock} : worker'[v] = worker[v]
          /\ (stage = 3 /\ \E t \in DOMAIN fut \cap DOMAIN fut' :
                                fut[t].st = "pending" /\ fut'[t].st # "pending") =>
                   (posts' = posts /\ fs' = fs)
      ]_vars

\* C20 witness: a stage 1 thread has written its line and not yet added
\* the id, while another thread waits for the lock
C20_Witness ==
    /\ stage = 1
    /\ \E w, v \in DOMAIN worker :
           /\ w # v /\ worker[w].pc = "w_add" /\ worker[v].pc \in {"check", "write"}
           /\ processed_ids # loaded_ids \cup IdsOf(fs[OUTPUT_PATH].recs)

\* the events process_record has put on the queue in this run: one for each
\* call that ran to completion (line 122 or line 127)
Events == SelectSeq(progress_queue, LAMBDA status : status # Sentinel)

\* C21: in stage 2, in every run that gets past the pending check and is not
\* killed, (a) update_progress terminates: the main thread never ends, and
\* never waits in join, while the consumer runs on a queue that holds no
\* sentinel; (b) the sentinel is put after every event: it is the last item
\* of the queue; (c) when the consumer has stopped, success_count +
\* fail_count is the number of process_record calls that ran to completion
\* and success_count is the number of results collected.
C21_ProgressConsumerStopsWithExactCounts ==
    (stage = 2 /\ pc # "dead") =>
        /\ (progress_thread = "running" /\ pc \in {"done", "exit", "join"}) =>
               Sentinel \in Range(progress_queue)
        /\ \A k \in DOMAIN progress_queue :
               progress_queue[k] = Sentinel => k = Len(progress_queue)
        /\ progress_thread = "stopped" =>
               /\ success_count + fail_count = Len(Events)
               /\ success_count = Len(results)

\* C22: in stage 3, at every moment of a run and whatever the order in which
\* the futures complete and are yielded: the collection keeps its posts, every
\* post its number of turns and every turn its patient text; a turn that
\* carried counselor_content when the collection was loaded has no task and
\* is unchanged; and a turn that differs from the loaded one is the turn
\* (post i, turn j) of a yielded task, changed only by the reply of that task.
C22_AnsweredTurnsAndOrderKept ==
    (stage = 3 /\ pc # "load") =>
        /\ Len(posts) = Len(loaded_posts)
        /\ \A t, u \in DOMAIN tasks :
               (tasks[t].post_idx = tasks[u].post_idx /\ tasks[t].conv_idx = tasks[u].conv_idx)
                   => t = u
        /\ \A a \in DOMAIN posts :
               LET now == posts[a].conversation
                   was == loaded_posts[a].conversation
               IN  /\ posts[a].post_id = loaded_posts[a].post_id
                   /\ Len(now) = Len(was)
                   /\ \A j \in DOMAIN now :
                          /\ Get(now[j], "patient") = Get(was[j], "patient")
                          /\ Truthy(Get(was[j], "counselor_content")) =>
                                 /\ now[j] = was[j]
                                 /\ \A t \in DOMAIN tasks :
                                        ~(tasks[t].post_idx = a /\ tasks[t].conv_idx = j)
                          /\ now[j] # was[j] =>
                                 \E t \in DOMAIN tasks :
                                     /\ tasks[t].post_idx = a /\ tasks[t].conv_idx = j
                                     /\ fut[t].st = "consumed"
                                     /\ now[j] = Merge(was[j], Reply(t), Think(t))

\* C22 witness: two tasks, the second yielded first: its reply is in its own
\* turn, the answered turn before it is as loaded, and the turn of the
\* first task is still pending
C22_Witness ==
    /\ stage = 3 /\ pc = "loop" /\ Len(tasks) = 2
    /\ fut[1].st \in {"pending", "ok"} /\ fut[2].st = "consumed"
    /\ tasks[2].conv_idx = 2
    /\ LET conv == posts[tasks[2].post_idx].conversation
       IN  /\ conv[1] = TurnDone
           /\ conv[2] = Merge(TurnPending, Reply(2), Think(2))
    /\ posts[tasks[1].post_idx].conversation[tasks[1].conv_idx] = TurnPending

\* C23: in stage 3 the tasks, their histories included, are fixed once the
\* collection is loaded, and the request of the task for turn j of a post is
\* the patient text followed by the history of the turns before j as they
\* were loaded: it holds the counselor reply of an earlier turn only if the
\* loaded turn carried it, never a reply merged in this run, whenever the
\* call is made.
C23_HistoryIsTheLoadedOne ==
    /\ [](stage = 3 =>
            \A t \in DOMAIN fut :
                fut[t].st \in {"ok", "err"} =>
                    LET was == loaded_posts[tasks[t].post_idx].conversation
                        j == tasks[t].conv_idx
                    IN  /\ fut[t].sent = <<[role |-> "user", content |-> was[j].patient]>>
                                             \o History(was, j)
                        /\ \A m \in DOMAIN fut[t].sent :
                               fut[t].sent[m].role = "assistant" =>
                                   \E k \in 1..(j - 1) :
                                       /\ Truthy(Get(was[k], "counselor_content"))
                                       /\ fut[t].sent[m].content = was[k].counselor_content)
    /\ [][(stage = 3 /\ pc # "load" /\ pc' # "load") => tasks' = tasks]_vars

\* C23 witness: the call for turn 2 of a post was made after the reply of
\* turn 1, pending when loaded, had been merged in this run: the request
\* holds the two patient texts and no counselor reply
C23_Witness ==
    /\ stage = 3
    /\ \E t \in DOMAIN fut :
          /\ fut[t].st \in {"ok", "err"}
          /\ tasks[t].conv_idx = 2
          /\ loaded_posts[tasks[t].post_idx].conversation[1] = TurnPending
          /\ Truthy(Get(fut[t].seen[1], "counselor_content"))
          /\ fut[t].sent = <<[role |-> "user", content |-> "q"], [role |-> "user", content |-> "q"]>>
====
